---- MODULE Spec2Model ----
(***************************************************************************)
(* Two-stage search result retrieval and lazy rendering of                 *)
(* components/Material/Search/Result.jsx (class Result, method update).    *)
(*                                                                         *)
(* Strings that the code inspects character by character are sequences of  *)
(* one-character strings; query texts are plain strings.  Highlighted      *)
(* fragments produced by the engine are the field value wrapped in the     *)
(* pre/post tags.  Variables named as in the source are the program's      *)
(* state; `dispatched`, `calls`, `ev` and the `text`/`slice`/`runs` fields are        *)
(* history information used only to state properties.  Article nodes that  *)
(* neither the list nor a pending unit refers to any more are dropped.      *)
(* `args` and `returned` serve the second specification, which calls the   *)
(* functions of the component on their own.                                *)
(***************************************************************************)
EXTENDS Integers, Sequences, FiniteSets, TLC

VARIABLES
    engine,         \* the site the engine serves (external, fixed during a run)
    initialized_,   \* this.initialized_
    es_client_,     \* number of clients constructed (this.es_client_ is the last)
    listeners,      \* number of scroll listeners attached to the container
    value_,         \* this.value_ (Undefined until the first accepted event)
    stack_,         \* this.stack_ (pending render units)
    stack_assigned, \* FALSE while this.stack_ is still undefined
    list_,          \* children of this.list_: keys of the attached articles
    articles,       \* the <li> article nodes still referred to, by key
    meta_,          \* this.meta_.textContent
    searches,       \* stage-1 queries in flight
    msearches,      \* stage-2 batches in flight
    dispatched,     \* number of stage-1 queries dispatched so far
    calls,          \* invocations of the stage-1 callback, by search
    ev,             \* the event handled by the last step
    args,           \* the arguments of a call of one of the functions alone
    returned        \* whether that call has returned, and its value

\* the state of the component
vars_ == << engine, initialized_, es_client_, listeners, value_, stack_,
            stack_assigned, list_, articles, meta_, searches, msearches,
            dispatched, calls, ev >>

vars == << vars_, args, returned >>

-----------------------------------------------------------------------------
(* Bounds of the model and constants of the program *)

MaxSearches == 2
OffsetHeight == 30
DocHeight == 20
SecHeight == 1
MaxLen == 5

Size == 50
TitleBoost == 5
TextBoost == 3
Slack == 16
Batch == 10
TeaserBudget == 200

Undefined == "<undefined>"
Texts == {"", "a", "b"}
base_url_ == <<"/", "s", "i", "t", "e">>

Min(a, b) == IF a < b THEN a ELSE b
Max(a, b) == IF a > b THEN a ELSE b
Take(s, n) == SubSeq(s, 1, Min(n, Len(s)))
Drop(s, n) == SubSeq(s, Min(n, Len(s)) + 1, Len(s))

-----------------------------------------------------------------------------
(* The message strings loaded by the constructor *)

message_ ==
    [ placeholder |-> <<"Type to start searching">>,
      none        |-> <<"No matching documents">>,
      one         |-> <<"1 matching document">>,
      other       |-> <<"#", " matching documents">> ]

RECURSIVE replace(_, _, _)
\* String.prototype.replace with a string pattern: the first occurrence only
replace(s, pat, by) ==
    IF s = <<>> THEN <<>>
    ELSE IF Head(s) = pat THEN <<by>> \o Tail(s)
    ELSE <<Head(s)>> \o replace(Tail(s), pat, by)

-----------------------------------------------------------------------------
(* truncate *)

RECURSIVE truncateScan(_, _)
\* while (string[i] !== " " && --i > 0);   (string[i] is the (i+1)-th character)
truncateScan(string, i) ==
    IF string[i + 1] = " " THEN i
    ELSE IF i - 1 > 0 THEN truncateScan(string, i - 1)
    ELSE i - 1

\* mutant of truncate: the cut is made at the budget, without the scan
truncateAtBudget(string, n) ==
    IF Len(string) > n
    THEN SubSeq(string, 1, n) \o <<".", ".", ".">>
    ELSE string

truncate(string, n) ==
    IF Len(string) > n
    THEN SubSeq(string, 1, truncateScan(string, n)) \o <<".", ".", ".">>
    ELSE string

-----------------------------------------------------------------------------
(* The engine: a fixed index and the two query contracts *)

Em(s) == <<"<em>">> \o s \o <<"</em>">>

Sec(title, location, text, titleTerms, textTerms) ==
    [ title |-> title, location |-> location, text |-> text,
      titleTerms |-> titleTerms, textTerms |-> textTerms ]

Doc(id, title, location, titleTerms, textTerms, frags, sections) ==
    [ id |-> id, title |-> title, location |-> location,
      titleTerms |-> titleTerms, textTerms |-> textTerms,
      frags |-> frags, sections |-> sections ]

\* n sections of one document that all match "a" in their text
Secs(n, loc) ==
    [ j \in 1..n |->
        Sec(<<"S">>, loc, <<"x", " ", "y">>, {}, {"a"}) ]

\* a small site: two documents match "a", none matches "b"
SmallIndex ==
    << Doc("d1", <<"Intro">>, <<"i">>, {"a"}, {"a"}, 2,
           << Sec(<<"Intro">>, <<"i", "1">>, <<"p", " ", "q">>, {"a"}, {}),
              Sec(<<"Usage">>, <<"i", "2">>, <<"r">>, {}, {"a"}),
              Sec(<<"Intro">>, <<"i", "3">>, <<"s">>, {}, {"a", "b"}) >>),
       Doc("d2", <<"Setup">>, <<"s">>, {}, {"a"}, 1, <<>>) >>

\* a larger site: three documents match "a", one matches "b"
LargeIndex ==
    << Doc("d1", <<"Intro">>, <<"i">>, {"a"}, {"a"}, 5, Secs(6, <<"i">>)),
       Doc("d2", <<"Setup">>, <<"s">>, {"a"}, {"a"}, 5, Secs(6, <<"s">>)),
       Doc("d3", <<"Usage">>, <<"u">>, {"a"}, {"a"}, 5, Secs(6, <<"u">>)),
       Doc("d4", <<"Notes">>, <<"n">>, {"b"}, {}, 1,
           << Sec(<<"Notes">>, <<"n", "1">>, <<"z">>, {"b"}, {"b"}) >>) >>

\* a site whose only document matches "a" and comes back without highlight
BareIndex ==
    << Doc("d1", <<"Intro">>, <<"i">>, {"a"}, {"a"}, 0, <<>>) >>

\* a site of documents without sections: five match "a", two match "b"
WideIndex ==
    [ k \in 1..5 |->
        Doc(<<"w", k>>, <<"Page">>, <<"w">>, {"a"},
            IF k > 3 THEN {"b"} ELSE {}, 1, <<>>) ]

\* the sites a run can be served from, by name
Indexes ==
    [ small |-> SmallIndex, large |-> LargeIndex, bare |-> BareIndex,
      wide |-> WideIndex ]

\* a hit without the `highlight` property (hit.highlight is undefined)
NoHighlight == [ f \in {} |-> <<>> ]

Matches(entry, text) == text \in entry.titleTerms \cup entry.textTerms

\* the highlight object of a hit: a missing field is the empty sequence
Highlight(entry, text, frags) ==
    [ title |-> IF text \in entry.titleTerms THEN <<Em(entry.title)>> ELSE <<>>,
      text  |-> IF text \in entry.textTerms
                THEN [ k \in 1..frags |-> Em(<<text>>) ] ELSE <<>> ]

\* stage 1: the top-level documents matching the text, capped at `size`
EngineSearch(idx, post_body) ==
    LET IsHit(d) == Matches(d, post_body.query)
        found == SelectSeq(idx, IsHit)
        Hit(d) == [ _id |-> d.id,
                    _source |-> [ title |-> d.title, location |-> d.location ],
                    highlight |-> IF d.frags = 0 THEN NoHighlight
                                  ELSE Highlight(d, post_body.query, d.frags) ]
    IN  [ hits  |-> [ k \in 1..Min(Len(found), post_body.size) |-> Hit(found[k]) ],
          total |-> Len(found) ]

\* stage 2: one slice per section query, positionally aligned
EngineMsearch(idx, msearch_body) ==
    LET Slice(query) ==
            LET IsParent(d) == d.id = query.parent_id
                parents == SelectSeq(idx, IsParent)
                IsHit(s) == Matches(s, query.query)
                found == IF parents = <<>> THEN <<>>
                         ELSE SelectSeq(parents[1].sections, IsHit)
                Hit(s) == [ _source |-> [ title |-> s.title,
                                          location |-> s.location,
                                          text |-> s.text ],
                            highlight |-> Highlight(s, query.query, 1) ]
            IN  [ k \in 1..Min(Len(found), query.size) |-> Hit(found[k]) ]
    IN  [ k \in 1..Len(msearch_body) |-> Slice(msearch_body[k]) ]

buildElasticSearchQuery(query_value) ==
    [ source |-> <<"title", "location">>, size |-> Size,
      parent_document |-> "full_doc", query |-> query_value,
      boost |-> <<TitleBoost, TextBoost>> ]

-----------------------------------------------------------------------------
(* Result aggregation: the stage-2 callback's forEach over the responses *)

RECURSIVE teaserFrom(_, _, _, _)
\* section_hit.hits.hits.forEach(...): every section with the document's
\* title and a highlighted text assigns teaserHighlight
teaserFrom(hits, title, k, teaserHighlight) ==
    IF k > Len(hits) THEN teaserHighlight
    ELSE teaserFrom(hits, title, k + 1,
            IF /\ hits[k]._source.title = title
               /\ hits[k].highlight.text # <<>>
            THEN hits[k].highlight.text[1]
            ELSE teaserHighlight)

teaser(section_hit, hit) == teaserFrom(section_hit, hit._source.title, 1, <<>>)

titleOf(hit) ==
    IF hit.highlight.title # <<>> THEN hit.highlight.title[1]
    ELSE hit._source.title

textOf(hit) ==
    IF hit.highlight.text # <<>> THEN hit.highlight.text[1]
    ELSE hit._source.text

NoNode == [ href |-> <<>>, title |-> <<>>, title_str |-> <<>>, teaser |-> <<>> ]

\* the <li> built for hit `index` of a search; kids are the section anchors
\* appended to it so far, text is the query text of the search's stage 1,
\* slice is the stage-2 slice it was built from and runs counts the
\* executions of its document unit
articleOf(text, result, section_result, index) ==
    [ href      |-> base_url_ \o <<"/">> \o result[index]._source.location,
      title     |-> result[index]._source.title,
      title_str |-> titleOf(result[index]),
      teaser    |-> teaser(section_result[index], result[index]),
      kids      |-> <<>>,
      text      |-> text,
      slice     |-> section_result[index],
      runs      |-> 0 ]

\* the anchor a section renderer appends to its article
sectionOf(hit) ==
    [ href      |-> base_url_ \o <<"/">> \o hit._source.location,
      title     |-> hit._source.title,
      title_str |-> titleOf(hit),
      teaser    |-> truncate(textOf(hit), TeaserBudget) ]

\* mutant of unitsOf: the section renderers are pushed before the article's
unitsOfSectionsFirst(q, section_result, index) ==
    [ j \in 1..Len(section_result[index]) |->
        [ kind |-> "sec", art |-> <<q, index>>, j |-> j,
          node |-> sectionOf(section_result[index][j]) ] ]
    \o << [ kind |-> "doc", art |-> <<q, index>>, j |-> 0, node |-> NoNode ] >>

\* mutant of unitsOf: an article without sections is not pushed
unitsOfWithSections(q, section_result, index) ==
    IF section_result[index] = <<>> THEN <<>>
    ELSE << [ kind |-> "doc", art |-> <<q, index>>, j |-> 0, node |-> NoNode ] >>
         \o [ j \in 1..Len(section_result[index]) |->
                [ kind |-> "sec", art |-> <<q, index>>, j |-> j,
                  node |-> sectionOf(section_result[index][j]) ] ]

\* () => list_.appendChild(article), ...sections
unitsOf(q, section_result, index) ==
    << [ kind |-> "doc", art |-> <<q, index>>, j |-> 0, node |-> NoNode ] >>
    \o [ j \in 1..Len(section_result[index]) |->
           [ kind |-> "sec", art |-> <<q, index>>, j |-> j,
             node |-> sectionOf(section_result[index][j]) ] ]

RECURSIVE pushAll(_, _, _, _)
\* outer_this.stack_.push(...) for every element of the responses, in order
pushAll(stack, q, section_result, index) ==
    IF index > Len(section_result) THEN stack
    ELSE pushAll(stack \o unitsOf(q, section_result, index),
                 q, section_result, index + 1)

-----------------------------------------------------------------------------
(* The container's geometry and the execution of render units *)

RECURSIVE contentHeight(_, _)
contentHeight(list, arts) ==
    IF list = <<>> THEN 0
    ELSE DocHeight + SecHeight * Len(arts[Head(list)].kids)
         + contentHeight(Tail(list), arts)

scrollHeight(list, arts) == Max(OffsetHeight, contentHeight(list, arts))

Without(list, key) == LET Other(k) == k # key IN SelectSeq(list, Other)

\* mutant of render: a document unit inserts its article at the head of the list
renderPrepend(u, st) ==
    IF u.kind = "doc"
    THEN [ st EXCEPT !.list = <<u.art>> \o Without(st.list, u.art),
                     !.arts = [ st.arts EXCEPT ![u.art].runs = @ + 1 ],
                     !.n = @ + 1 ]
    ELSE [ st EXCEPT !.arts = [ st.arts EXCEPT ![u.art].kids =
                                   Append(@, [ j |-> u.j, node |-> u.node,
                                               runs |-> st.arts[u.art].runs ]) ],
                     !.n = @ + 1 ]

\* running one render unit: a document unit appends (moves) its article to
\* the list, a section unit appends its anchor to its article
render(u, st) ==
    IF u.kind = "doc"
    THEN [ st EXCEPT !.list = Append(Without(st.list, u.art), u.art),
                     !.arts = [ st.arts EXCEPT ![u.art].runs = @ + 1 ],
                     !.n = @ + 1 ]
    ELSE [ st EXCEPT !.arts = [ st.arts EXCEPT ![u.art].kids =
                                   Append(@, [ j |-> u.j, node |-> u.node,
                                               runs |-> st.arts[u.art].runs ]) ],
                     !.n = @ + 1 ]

RECURSIVE forEachRender(_, _)
forEachRender(units, st) ==
    IF units = <<>> THEN st
    ELSE forEachRender(Tail(units), render(Head(units), st))

\* mutant of eagerDrain: every pending unit is run, whatever the heights
eagerDrainAll(st) == forEachRender(st.stack, [ st EXCEPT !.stack = <<>> ])

\* mutant of eagerDrain: the head unit is run but stays in the queue
eagerDrainPeek(st) ==
    IF /\ Len(st.stack) # 0
       /\ OffsetHeight >= scrollHeight(st.list, st.arts) - Slack
    THEN render(Head(st.stack), st)
    ELSE st

RECURSIVE eagerDrain(_)
\* while (stack_.length && offsetHeight >= scrollHeight - 16) (stack_.shift())()
eagerDrain(st) ==
    IF /\ Len(st.stack) # 0
       /\ OffsetHeight >= scrollHeight(st.list, st.arts) - Slack
    THEN eagerDrain(render(Head(st.stack), [ st EXCEPT !.stack = Tail(@) ]))
    ELSE st

\* mutant of lazyDrain: the scroll position is not tested
lazyDrainAnywhere(st, scrollTop) ==
    IF Len(st.stack) # 0
    THEN forEachRender(Take(st.stack, Batch),
                       [ st EXCEPT !.stack = Drop(@, Batch) ])
    ELSE st

\* mutant of lazyDrain: only whole batches are taken off the queue
lazyDrainWholeBatches(st, scrollTop) ==
    IF /\ Len(st.stack) >= Batch
       /\ scrollTop + OffsetHeight >= scrollHeight(st.list, st.arts) - Slack
    THEN forEachRender(Take(st.stack, Batch),
                       [ st EXCEPT !.stack = Drop(@, Batch) ])
    ELSE st

\* mutant of lazyDrain: `if` in place of `while`, one batch per event
lazyDrainOnce(st, scrollTop) ==
    IF /\ Len(st.stack) # 0
       /\ scrollTop + OffsetHeight >= scrollHeight(st.list, st.arts) - Slack
    THEN forEachRender(Take(st.stack, Batch),
                       [ st EXCEPT !.stack = Drop(@, Batch) ])
    ELSE st

RECURSIVE lazyDrain(_, _)
\* while (stack_.length && scrollTop + offsetHeight >= scrollHeight - 16)
\*   stack_.splice(0, 10).forEach(render => render())
lazyDrain(st, scrollTop) ==
    IF /\ Len(st.stack) # 0
       /\ scrollTop + OffsetHeight >= scrollHeight(st.list, st.arts) - Slack
    THEN lazyDrain(forEachRender(Take(st.stack, Batch),
                                 [ st EXCEPT !.stack = Drop(@, Batch) ]),
                   scrollTop)
    ELSE st

\* mutant of metaText: the switch without its `case 1`
metaTextNoOne(total_results) ==
    CASE total_results = 0 -> message_.none
      [] OTHER -> replace(message_.other, "#", ToString(total_results))

\* the article nodes still referred to: those in the list and those a
\* pending render closure holds
live(list, stack, arts) ==
    LET held == { list[k] : k \in 1..Len(list) }
                \cup { stack[k].art : k \in 1..Len(stack) }
    IN  [ key \in DOMAIN arts \cap held |-> arts[key] ]

\* the metadata switch
metaText(total_results) ==
    CASE total_results = 0 -> message_.none
      [] total_results = 1 -> message_.one
      [] OTHER -> replace(message_.other, "#", ToString(total_results))

-----------------------------------------------------------------------------
(* The state machine *)

NoArticles == [ key \in {} |-> NoNode ]

\* the event a step handles: its type, the input's text, the search it
\* belongs to, the scroll position, the number of render units it ran (of
\* nodes it removed from the list, for an input event) and the branch taken
Event(type, text, q, top, n, branch) ==
    [ type |-> type, text |-> text, q |-> q, top |-> top, n |-> n,
      branch |-> branch ]

\* the sites of the two-stage component: those with sections, and the one
\* whose hit comes without highlight
Sites == {"small", "large", "bare"}

Init ==
    /\ engine \in Sites
    /\ initialized_ = FALSE
    /\ es_client_ = 0
    /\ listeners = 0
    /\ value_ = Undefined
    /\ stack_ = <<>>
    /\ stack_assigned = FALSE
    /\ list_ = <<>>
    /\ articles = NoArticles
    /\ meta_ = message_.placeholder
    /\ searches = {}
    /\ msearches = {}
    /\ dispatched = 0
    /\ calls = [ q \in 1..MaxSearches |-> 0 ]
    /\ ev = Event("new", "", 0, 0, 0, "new")
    /\ args = [ op |-> "none" ]
    /\ returned = [ done |-> FALSE, value |-> <<>> ]

\* mutant of initializes: every focus event initializes
initializesOnEveryFocus(type) == type = "focus"

\* mutant of initializes: any event of an uninitialized instance initializes
initializesOnAnyEvent(type) == ~initialized_

\* if (ev.type === "focus" && !this.initialized_)
initializes(type) == type = "focus" /\ ~initialized_

\* mutant of aborts: no query is dispatched while another is in flight
abortsWhileInFlight(text) == ~initialized_ \/ text = value_ \/ searches # {}

\* mutant of aborts: only an unchanged empty text aborts
abortsOnEmpty(text) == ~initialized_ \/ (text = value_ /\ text = "")

\* mutant of aborts: the comparison with the last value is missing
abortsUninitialized(text) == ~initialized_

\* if (!this.initialized_ || target.value === this.value_) return
aborts(text) == ~initialized_ \/ text = value_

\* mutant of clear: `if` in place of `while`, only the first child is removed
clearFirstChild(list) == IF list = <<>> THEN <<>> ELSE Tail(list)

\* while (this.list_.firstChild) this.list_.removeChild(this.list_.firstChild)
clear(list) == <<>>

\* Result.update(ev) for a focus or keyup event whose target holds `text`
update(type, text) ==
    IF initializes(type)
    THEN /\ es_client_' = es_client_ + 1
         /\ listeners' = listeners + 1
         /\ initialized_' = TRUE
         /\ ev' = Event(type, text, 0, 0, 0, "init")
         /\ UNCHANGED << calls, args, returned, engine, value_, stack_, stack_assigned, list_,
                         articles, meta_, searches, msearches, dispatched >>
    ELSE IF aborts(text)
    THEN /\ ev' = Event(type, text, 0, 0, 0, "abort")
         /\ UNCHANGED << calls, args, returned, engine, initialized_, es_client_, listeners, value_,
                         stack_, stack_assigned, list_, articles, meta_,
                         searches, msearches, dispatched >>
    ELSE /\ list_' = clear(list_)
         /\ articles' = live(list_', stack_, articles)
         /\ value_' = text
         /\ IF text = ""
            THEN /\ meta_' = message_.placeholder
                 /\ ev' = Event(type, text, 0, 0, Len(list_), "clear")
                 /\ UNCHANGED << searches, dispatched >>
            ELSE /\ dispatched < MaxSearches
                 /\ dispatched' = dispatched + 1
                 /\ searches' = searches \cup
                       { [ q |-> dispatched + 1,
                           post_body |-> buildElasticSearchQuery(text) ] }
                 /\ ev' = Event(type, text, dispatched + 1, 0, Len(list_), "query")
                 /\ UNCHANGED meta_
         /\ UNCHANGED << calls, args, returned, engine, initialized_, es_client_, listeners, stack_,
                         stack_assigned, msearches >>

\* the section query built for one stage-1 hit
section_post_body(hit) ==
    [ source |-> <<"title", "location", "text">>,
      size |-> Len(hit.highlight.title) + Len(hit.highlight.text),
      parent_document |-> "section", parent_id |-> hit._id,
      query |-> value_, boost |-> <<TitleBoost, TextBoost>> ]

\* mutant of msearchBody: the section queries are collected in reverse order
msearchBodyReversed(result) ==
    [ k \in 1..Len(result) |-> section_post_body(result[Len(result) + 1 - k]) ]

\* result.forEach(hit => msearch_body.push(header, section_post_body))
msearchBody(result) ==
    [ k \in 1..Len(result) |-> section_post_body(result[k]) ]

\* mutant of dispatchesMsearch: the batch is sent whatever it holds
dispatchesMsearchAlways(msearch_body) == TRUE

\* if (msearch_body.length > 0)
dispatchesMsearch(msearch_body) == Len(msearch_body) > 0

\* hit.highlight.title of a hit without highlight: the forEach over the
\* stage-1 hits throws a TypeError
raises(result) ==
    \E k \in 1..Len(result) : DOMAIN result[k].highlight = {}

\* the stage-1 callback function(err, response) of search r; when the
\* success branch throws, performElasticSearchQuery catches the error and
\* invokes the callback again, with the error
searchCallback(r, err) ==
    IF err
    THEN \* console.error("..." + error): `error` is not defined here
         /\ ev' = Event("search", r.post_body.query, r.q, 0, 0, "error")
         /\ calls' = [ calls EXCEPT ![r.q] = @ + 1 ]
         /\ UNCHANGED << stack_, stack_assigned, meta_, msearches, articles >>
    ELSE IF raises(EngineSearch(Indexes[engine], r.post_body).hits)
    THEN \* stack_ = [] has been run, the forEach throws, callback(err) follows
         /\ stack_' = <<>>
         /\ stack_assigned' = TRUE
         /\ articles' = live(list_, <<>>, articles)
         /\ ev' = Event("search", r.post_body.query, r.q, 0, 0, "raise")
         /\ calls' = [ calls EXCEPT ![r.q] = @ + 2 ]
         /\ UNCHANGED << meta_, msearches >>
    ELSE LET response == EngineSearch(Indexes[engine], r.post_body)
             result == response.hits
             total_results == response.total
             msearch_body == msearchBody(result)
         IN  /\ stack_' = <<>>
             /\ stack_assigned' = TRUE
             /\ msearches' =
                  IF dispatchesMsearch(msearch_body)
                  THEN msearches \cup
                         { [ q |-> r.q, text |-> r.post_body.query,
                             result |-> result, body |-> msearch_body ] }
                  ELSE msearches
             /\ meta_' = metaText(total_results)
             /\ articles' = live(list_, <<>>, articles)
             /\ ev' = Event("search", r.post_body.query, r.q, 0, 0, "ok")
             /\ calls' = [ calls EXCEPT ![r.q] = @ + 1 ]

\* completion of performElasticSearchQuery for the search r in flight
performElasticSearchQuery(r, err) ==
    /\ r \in searches
    /\ searches' = searches \ {r}
    /\ searchCallback(r, err)
    /\ UNCHANGED << args, returned, engine, initialized_, es_client_, listeners, value_,
                    list_, dispatched >>

\* the stage-2 callback function(error, sections_response, status) of batch m
msearchCallback(m, error) ==
    /\ m \in msearches
    /\ msearches' = msearches \ {m}
    /\ IF error
       THEN /\ ev' = Event("msearch", "", m.q, 0, 0, "error")
            /\ UNCHANGED << stack_, list_, articles >>
       ELSE LET section_result == EngineMsearch(Indexes[engine], m.body)
                made == [ key \in { <<m.q, k>> : k \in 1..Len(section_result) } |->
                            articleOf(m.text, m.result, section_result, key[2]) ]
                arts == [ key \in DOMAIN articles \cup DOMAIN made |->
                            IF key \in DOMAIN made THEN made[key]
                            ELSE articles[key] ]
            IN \E st \in { eagerDrain(
                        [ stack |-> pushAll(stack_, m.q, section_result, 1),
                          list |-> list_, arts |-> arts, n |-> 0 ]) } :
                /\ stack_' = st.stack
                /\ list_' = st.list
                /\ articles' = live(st.list, st.stack, st.arts)
                /\ ev' = Event("msearch", "", m.q, 0, st.n, "ok")
    /\ UNCHANGED << calls, args, returned, engine, initialized_, es_client_, listeners, value_,
                    stack_assigned, meta_, searches, dispatched >>

\* the scroll positions tried: the bottom, the last position within the
\* slack of the bottom and the first one outside it
scrollTops ==
    LET maxTop == scrollHeight(list_, articles) - OffsetHeight
    IN  { maxTop, maxTop - Slack, maxTop - Slack - 1 } \cap 0..maxTop

\* the container's scroll listener, run with the container scrolled to scrollTop
scroll(scrollTop) ==
    /\ listeners > 0
    /\ IF ~stack_assigned
       THEN \* this.stack_.length of undefined
            /\ ev' = Event("scroll", "", 0, scrollTop, 0, "error")
            /\ UNCHANGED << stack_, list_, articles >>
       ELSE \E st \in { lazyDrain([ stack |-> stack_, list |-> list_,
                                  arts |-> articles, n |-> 0 ], scrollTop) } :
                /\ stack_' = st.stack
                /\ list_' = st.list
                /\ articles' = live(st.list, st.stack, st.arts)
                /\ ev' = Event("scroll", "", 0, scrollTop, st.n, "ok")
    /\ UNCHANGED << calls, args, returned, engine, initialized_, es_client_, listeners, value_,
                    stack_assigned, meta_, searches, msearches, dispatched >>

Next ==
    \/ \E type \in {"focus", "keyup"}, text \in Texts : update(type, text)
    \/ \E r \in searches, err \in BOOLEAN : performElasticSearchQuery(r, err)
    \/ \E m \in msearches, error \in BOOLEAN : msearchCallback(m, error)
    \/ \E scrollTop \in scrollTops : scroll(scrollTop)

Spec == Init /\ [][Next]_vars

\* a scroll event within the slack of the bottom while units are pending
scrollNearBottom ==
    /\ stack_ # <<>>
    /\ \E scrollTop \in scrollTops :
          /\ scrollTop + OffsetHeight
                >= scrollHeight(list_, articles) - Slack
          /\ scroll(scrollTop)

\* the program when the user keeps scrolling to the bottom: weak fairness
\* of scrollNearBottom, WF_vars(scrollNearBottom), written out; the step is
\* enabled exactly when units are pending (the bottom is always within the
\* slack and a drain there runs at least one unit)
LiveSpec ==
    /\ Init /\ [][Next]_vars
    /\ ([]<>(stack_ = <<>>) \/ []<><<scrollNearBottom>>_vars)

-----------------------------------------------------------------------------
(* The single-stage variant of the component: one query per accepted text, *)
(* documents only.  Its constructor builds the client; initialization, the *)
(* early abort, the clearing of the list, the drains and the metadata      *)
(* switch are the same code as above.                                      *)

SingleInit ==
    /\ engine \in DOMAIN Indexes
    /\ initialized_ = FALSE
    /\ es_client_ = 1
    /\ listeners = 0
    /\ value_ = Undefined
    /\ stack_ = <<>>
    /\ stack_assigned = FALSE
    /\ list_ = <<>>
    /\ articles = NoArticles
    /\ meta_ = message_.placeholder
    /\ searches = {}
    /\ msearches = {}
    /\ dispatched = 0
    /\ calls = [ q \in 1..MaxSearches |-> 0 ]
    /\ ev = Event("new", "", 0, 0, 0, "new")
    /\ args = [ op |-> "none" ]
    /\ returned = [ done |-> FALSE, value |-> <<>> ]

\* Result.update(ev) of the single-stage variant
updateSingle(type, text) ==
    IF initializes(type)
    THEN /\ initialized_' = TRUE
         /\ listeners' = listeners + 1
         /\ ev' = Event(type, text, 0, 0, 0, "init")
         /\ UNCHANGED << es_client_, value_, stack_, stack_assigned, list_,
                         articles, meta_, searches, dispatched >>
    ELSE IF aborts(text)
    THEN /\ ev' = Event(type, text, 0, 0, 0, "abort")
         /\ UNCHANGED << initialized_, es_client_, listeners, value_, stack_,
                         stack_assigned, list_, articles, meta_, searches,
                         dispatched >>
    ELSE /\ list_' = clear(list_)
         /\ articles' = live(list_', stack_, articles)
         /\ value_' = text
         /\ IF text = ""
            THEN /\ meta_' = message_.placeholder
                 /\ ev' = Event(type, text, 0, 0, Len(list_), "clear")
                 /\ UNCHANGED << searches, dispatched >>
            ELSE /\ dispatched < MaxSearches
                 /\ dispatched' = dispatched + 1
                 /\ searches' = searches \cup
                       { [ q |-> dispatched + 1,
                           post_body |-> buildElasticSearchQuery(text) ] }
                 /\ ev' = Event(type, text, dispatched + 1, 0, Len(list_), "query")
                 /\ UNCHANGED meta_
         /\ UNCHANGED << initialized_, es_client_, listeners, stack_,
                         stack_assigned >>

\* the <li> built for one hit: the teaser is the hit's own highlighted text
articleOfSingle(text, hit) ==
    [ href      |-> <<"/">> \o hit._source.location,
      title     |-> hit._source.title,
      title_str |-> titleOf(hit),
      teaser    |-> IF hit.highlight.text # <<>>
                    THEN hit.highlight.text[1] ELSE <<>>,
      kids      |-> <<>>,
      text      |-> text,
      slice     |-> <<>>,
      runs      |-> 0 ]

\* stack_.push(() => list_.appendChild(article), ...sections), sections = []
unitsOfSingle(q, index) ==
    << [ kind |-> "doc", art |-> <<q, index>>, j |-> 0, node |-> NoNode ] >>

RECURSIVE pushAllSingle(_, _, _, _)
\* result.forEach(hit => ...): the units of the first `upto` hits
pushAllSingle(stack, q, index, upto) ==
    IF index > upto THEN stack
    ELSE pushAllSingle(stack \o unitsOfSingle(q, index), q, index + 1, upto)

\* the number of hits the forEach handles before it throws on a hit
\* without highlight (all of them when none is without)
handled(result) ==
    LET bare == { k \in 1..Len(result) : DOMAIN result[k].highlight = {} }
    IN  IF bare = {} THEN Len(result)
        ELSE (CHOOSE k \in bare : \A h \in bare : k <= h) - 1

\* mutant of resetStack: the queue is not reset
keepStack(stack) == stack

\* outer_this.stack_ = []
resetStack(stack) == <<>>

\* the callback function(error, response, status) of search r
searchCallbackSingle(r, error) ==
    /\ r \in searches
    /\ searches' = searches \ {r}
    /\ calls' = [ calls EXCEPT ![r.q] = @ + 1 ]
    /\ IF error
       THEN /\ ev' = Event("search", r.post_body.query, r.q, 0, 0, "error")
            /\ UNCHANGED << stack_, stack_assigned, list_, articles, meta_ >>
       ELSE LET response == EngineSearch(Indexes[engine], r.post_body)
                result == response.hits
                upto == handled(result)
                made == [ key \in { <<r.q, k>> : k \in 1..upto } |->
                            articleOfSingle(r.post_body.query, result[key[2]]) ]
                arts == [ key \in DOMAIN articles \cup DOMAIN made |->
                            IF key \in DOMAIN made THEN made[key]
                            ELSE articles[key] ]
                pushed == pushAllSingle(resetStack(stack_), r.q, 1, upto)
            IN  IF raises(result)
                THEN \* the forEach throws: no drain, no metadata update
                     /\ stack_' = pushed
                     /\ stack_assigned' = TRUE
                     /\ articles' = live(list_, pushed, arts)
                     /\ ev' = Event("search", r.post_body.query, r.q, 0, 0,
                                    "raise")
                     /\ UNCHANGED << list_, meta_ >>
                ELSE \E st \in { eagerDrain([ stack |-> pushed, list |-> list_,
                                              arts |-> arts, n |-> 0 ]) } :
                        /\ stack_' = st.stack
                        /\ stack_assigned' = TRUE
                        /\ list_' = st.list
                        /\ articles' = live(st.list, st.stack, st.arts)
                        /\ meta_' = metaText(response.total)
                        /\ ev' = Event("search", r.post_body.query, r.q, 0,
                                       st.n, "ok")
    /\ UNCHANGED << args, returned, engine, initialized_, es_client_,
                    listeners, value_, msearches, dispatched >>

SingleNext ==
    \/ \E type \in {"focus", "keyup"}, text \in Texts :
          /\ updateSingle(type, text)
          /\ UNCHANGED << calls, args, returned, engine, msearches >>
    \/ \E r \in searches, error \in BOOLEAN : searchCallbackSingle(r, error)
    \/ \E scrollTop \in scrollTops : scroll(scrollTop)

SingleSpec == SingleInit /\ [][SingleNext]_vars

-----------------------------------------------------------------------------
(* The functions of the component called on their own *)

Chars == {"a", " "}

\* the strings of at most k characters
Strings(k) == UNION { [ 1..m -> Chars ] : m \in 0..k }

\* a text longer than the teaser budget, with spaces in it
LongText ==
    [ k \in 1..(TeaserBudget + MaxLen) |-> IF k % 7 = 0 THEN " " ELSE "x" ]

TruncateArgs ==
    { [ op |-> "truncate", string |-> s, n |-> k ] :
        s \in Strings(MaxLen), k \in 0..MaxLen }

\* section hits as the engine returns them: with or without highlighted
\* title and text, the texts shorter or longer than the teaser budget
SectionArgs ==
    { [ op |-> "section",
        hit |-> [ _source |-> [ title |-> <<"S">>, location |-> <<"l">>,
                                text |-> t ],
                  highlight |-> [ title |-> ht, text |-> hx ] ] ] :
        t \in { <<"x", " ", "y">>, LongText },
        ht \in { <<>>, << Em(<<"S">>) >> },
        hx \in { <<>>, << Em(<<"x">>) >>, << Em(LongText) >> } }

\* a stage-1 response of a site with the stage-2 batch aligned to it (the
\* hits have highlights: the batch is built from them)
AggregateArgs ==
    { [ op |-> "aggregate",
        result |-> EngineSearch(Indexes[site],
                                buildElasticSearchQuery(text)).hits,
        section_result |->
            LET result == EngineSearch(Indexes[site],
                                       buildElasticSearchQuery(text)).hits
            IN  EngineMsearch(Indexes[site],
                    [ k \in 1..Len(result) |->
                        [ section_post_body(result[k]) EXCEPT !.query = text ] ]) ] :
        site \in DOMAIN Indexes \ {"bare"}, text \in Texts \ {""} }

CallInit ==
    /\ engine = "small"
    /\ initialized_ = FALSE
    /\ es_client_ = 0
    /\ listeners = 0
    /\ value_ = Undefined
    /\ stack_ = <<>>
    /\ stack_assigned = FALSE
    /\ list_ = <<>>
    /\ articles = NoArticles
    /\ meta_ = message_.placeholder
    /\ searches = {}
    /\ msearches = {}
    /\ dispatched = 0
    /\ calls = [ q \in 1..MaxSearches |-> 0 ]
    /\ ev = Event("new", "", 0, 0, 0, "new")
    /\ args \in TruncateArgs \cup SectionArgs \cup AggregateArgs
    /\ returned = [ done |-> FALSE, value |-> <<>> ]

\* truncate(string, n)
callTruncate ==
    /\ args.op = "truncate" /\ ~returned.done
    /\ returned' = [ done |-> TRUE, value |-> truncate(args.string, args.n) ]
    /\ UNCHANGED << vars_, args >>

\* the anchor built by the section renderer of one section hit
callSection ==
    /\ args.op = "section" /\ ~returned.done
    /\ returned' = [ done |-> TRUE, value |-> sectionOf(args.hit) ]
    /\ UNCHANGED << vars_, args >>

\* the units pushed by the forEach over the responses of one batch
callAggregate ==
    /\ args.op = "aggregate" /\ ~returned.done
    /\ returned' = [ done |-> TRUE,
                     value |-> pushAll(<<>>, 1, args.section_result, 1) ]
    /\ UNCHANGED << vars_, args >>

CallNext == callTruncate \/ callSection \/ callAggregate

CallSpec == CallInit /\ [][CallNext]_vars

-----------------------------------------------------------------------------
(* Properties *)

Input == {"focus", "keyup"}

\* the step handles a focus/keyup event of an initialized instance
InputStep == ev'.type \in Input /\ initialized_

\* C1: once a newer search has been started, the completion of an older
\* search's stage-1 or stage-2 response installs no units into the pending
\* queue, executes no render unit and leaves the metadata text unchanged.
C1_StaleCompletionDiscarded ==
    [][ (ev'.type \in {"search", "msearch"} /\ ev'.q < dispatched)
        => /\ stack_' = stack_
           /\ stack_assigned' = stack_assigned
           /\ list_' = list_
           /\ ev'.n = 0
           /\ meta_' = meta_ ]_vars

\* C2: in every reachable state the pending queue holds render units of at
\* most one search.
C2_QueueOfOneSearch ==
    \A a, b \in 1..Len(stack_) : stack_[a].art[1] = stack_[b].art[1]

\* C3: a section unit is never executed before the document unit of its
\* article: every anchor was appended to an article whose document unit had
\* already run, the anchors of an article were appended in queue order, and a
\* pending section unit has its document unit before it in the queue unless
\* that unit has already run.
C3_SectionAfterDocument ==
    /\ \A key \in DOMAIN articles :
          \A k \in 1..Len(articles[key].kids) :
             /\ articles[key].kids[k].runs >= 1
             /\ articles[key].kids[k].j = k
    /\ \A a \in 1..Len(stack_) :
          stack_[a].kind = "sec" =>
             \/ articles[stack_[a].art].runs >= 1
             \/ \E b \in 1..(a - 1) :
                   stack_[b].kind = "doc" /\ stack_[b].art = stack_[a].art

\* a scroll-triggered drain has run sections of a painted document while
\* other sections are still pending
C3_Witness ==
    /\ ev.type = "scroll" /\ ev.n > 0
    /\ \E key \in DOMAIN articles :
          articles[key].runs = 1 /\ Len(articles[key].kids) > 0
    /\ \E a \in 1..Len(stack_) : stack_[a].kind = "sec"

\* C4: the document nodes of a search that are in the result list are in the
\* order of that search's stage-1 hits, each built from the hit at its
\* position, and the section nodes under a document are, in order, the
\* sections of the stage-2 slice at the index of its hit.
C4_ListInHitOrder ==
    /\ \A a, b \in 1..Len(list_) :
          (a < b /\ list_[a][1] = list_[b][1]) => list_[a][2] < list_[b][2]
    /\ \A a \in 1..Len(list_) :
          LET key == list_[a]
              art == articles[key]
              hit == EngineSearch(Indexes[engine],
                        buildElasticSearchQuery(art.text)).hits[key[2]]
          IN  /\ art.title = hit._source.title
              /\ art.href = base_url_ \o <<"/">> \o hit._source.location
              /\ Len(art.kids) <= Len(art.slice)
              /\ \A k \in 1..Len(art.kids) :
                    /\ art.kids[k].node.title = art.slice[k]._source.title
                    /\ art.kids[k].node.href =
                          base_url_ \o <<"/">> \o art.slice[k]._source.location

\* two documents of one search are in the list, the first with two sections
C4_Witness ==
    /\ Len(list_) >= 2
    /\ list_[1][1] = list_[2][1]
    /\ Len(articles[list_[1]].kids) >= 2

\* C5: an event of an initialized instance whose text equals value_ never
\* dispatches a query, and after such an instance has handled an event the
\* text of that event is value_; so of two consecutive events with the same
\* text the second dispatches nothing.
C5_SameTextNoDispatch ==
    /\ [](ev.type \in Input /\ ev.branch # "init" /\ initialized_
             => value_ = ev.text)
    /\ [][ (InputStep /\ ev'.text = value_)
           => (dispatched' = dispatched /\ searches' = searches) ]_vars
    /\ [][ (ev.type \in Input /\ ev.branch = "query" /\ InputStep
            /\ ev'.text = ev.text)
           => (dispatched' = ev.q /\ searches' = searches) ]_vars

\* a second keyup with the text "a": one query has been dispatched
C5_Witness ==
    /\ ev.type = "keyup" /\ ev.text = "a" /\ ev.branch = "abort"
    /\ initialized_ /\ value_ = "a" /\ dispatched = 1

\* the scroll position of the step is within the slack of the bottom
NearBottom(top, list, arts) ==
    top + OffsetHeight >= scrollHeight(list, arts) - Slack

ScrollStep == ev'.type = "scroll" /\ stack_assigned

C7_ClearInput ==
    [][ (InputStep /\ ev'.text = "" /\ value_ # "")
        => /\ list_' = <<>>
           /\ meta_' = message_.placeholder
           /\ value_' = ""
           /\ dispatched' = dispatched
           /\ searches' = searches /\ msearches' = msearches ]_vars

\* the input was cleared after results of a search had been rendered
C7_Witness ==
    /\ ev.type \in Input /\ ev.branch = "clear" /\ ev.n >= 2
    /\ list_ = <<>> /\ meta_ = message_.placeholder /\ value_ = ""

\* C8: the first focus event of an uninitialized instance constructs the
\* client, attaches the scroll listener, sets initialized_ and does nothing
\* else, whatever the input holds; a keyup event before initialization
\* changes nothing.
C8_InitializationOnly ==
    /\ [][ (ev'.type = "focus" /\ ~initialized_)
           => /\ initialized_' /\ es_client_' = 1 /\ listeners' = 1
              /\ UNCHANGED << value_, stack_, stack_assigned, list_, articles,
                              meta_, searches, msearches, dispatched >> ]_vars
    /\ [][ (ev'.type = "keyup" /\ ~initialized_)
           => UNCHANGED << initialized_, es_client_, listeners, value_, stack_,
                           stack_assigned, list_, articles, meta_, searches,
                           msearches, dispatched >> ]_vars

\* the first focus event found the text "a" in the input
C8_Witness ==
    /\ ev.type = "focus" /\ ev.text = "a" /\ ev.branch = "init"
    /\ initialized_ /\ dispatched = 0 /\ searches = {} /\ value_ = Undefined

\* the result count of the stage-1 response to a query text
TotalFor(text) == EngineSearch(Indexes[engine], buildElasticSearchQuery(text)).total

\* C9: on a successful stage-1 completion with result count n the metadata
\* text is the `none` message for n = 0, the `one` message for n = 1 and the
\* `other` message with n in place of "#" for n >= 2.
C9_MetaByCount ==
    [][ (ev'.type = "search" /\ ev'.branch = "ok")
        => LET n == TotalFor(ev'.text)
           IN  /\ n = 0 => meta_' = <<"No matching documents">>
               /\ n = 1 => meta_' = <<"1 matching document">>
               /\ n >= 2 => meta_' = <<ToString(n), " matching documents">> ]_vars

\* a stage-1 response with three results has set the `other` message
C9_Witness ==
    /\ ev.type = "search" /\ ev.branch = "ok"
    /\ TotalFor(ev.text) = 3 /\ meta_ = <<"3", " matching documents">>

\* the first section of a slice whose title is the document's plain title
FirstWithTitle(slice, title) ==
    LET same == { k \in 1..Len(slice) : slice[k]._source.title = title }
    IN  IF same = {} THEN 0 ELSE CHOOSE k \in same : \A h \in same : k <= h

\* C10: the teaser of a document unit is the highlighted text fragment of the
\* first section of its slice whose title equals the document's plain title,
\* if that section has one, and otherwise the document has no teaser.
C10_TeaserOfFirstSection ==
    \A key \in DOMAIN articles :
       LET art == articles[key]
           k == FirstWithTitle(art.slice, art.title)
       IN  art.teaser =
              IF k # 0 /\ art.slice[k].highlight.text # <<>>
              THEN art.slice[k].highlight.text[1] ELSE <<>>

\* the step is the failure of a stage-1 or stage-2 query
FailureStep == ev'.type \in {"search", "msearch"} /\ ev'.branch = "error"

\* C14: the failure of the stage-1 or stage-2 query of a search changes
\* neither the metadata text nor the list and runs no render unit, and the
\* metadata text is then what it was before the search: the placeholder,
\* when the search is the only one dispatched so far.
C14_FailureLeavesMeta ==
    /\ [][ FailureStep
           => (meta_' = meta_ /\ list_' = list_ /\ ev'.n = 0) ]_vars
    /\ []( (/\ ev.type \in {"search", "msearch"} /\ ev.branch = "error"
            /\ dispatched = 1)
           => meta_ = message_.placeholder )

\* C15: when the query of an accepted text fails right after the text was
\* accepted, the nodes that were in the list before the text was accepted
\* are still in it.
C15_FailureKeepsList ==
    [][ (/\ ev.type \in Input /\ ev.branch = "query" /\ ev.n > 0
         /\ ev'.type = "search" /\ ev'.branch = "error" /\ ev'.q = ev.q)
        => Len(list_') >= ev.n ]_vars

\* C16: while the last accepted text is not empty, the list holds nodes of
\* the search of that text only: no node of an earlier search is appended
\* after the text was accepted, by a scroll event or otherwise.
C16_NoEarlierNodes ==
    /\ [][ (ev'.type = "scroll" /\ value_ \notin {"", Undefined})
           => \A a \in 1..Len(list_') :
                 \/ \E b \in 1..Len(list_) : list_[b] = list_'[a]
                 \/ list_'[a][1] = dispatched ]_vars
    /\ [](value_ \notin {"", Undefined}
             => \A a \in 1..Len(list_) : list_[a][1] = dispatched)

\* the stage-1 hits of a query text
HitsFor(text) ==
    EngineSearch(Indexes[engine], buildElasticSearchQuery(text)).hits

\* C17: a successful stage-1 completion with zero hits dispatches no
\* stage-2 batch, installs the empty queue and renders nothing.
C17_NoHitsNoBatch ==
    [][ (ev'.type = "search" /\ ev'.branch = "ok" /\ HitsFor(ev'.text) = <<>>)
        => /\ msearches' = msearches
           /\ stack_' = <<>> /\ stack_assigned'
           /\ list_' = list_ /\ ev'.n = 0 ]_vars

\* the stage-1 response to "b" had no hits: the queue is empty, no batch
\* is in flight and the `none` message is shown
C17_Witness ==
    /\ ev.type = "search" /\ ev.branch = "ok" /\ HitsFor(ev.text) = <<>>
    /\ stack_assigned /\ stack_ = <<>> /\ msearches = {}
    /\ meta_ = message_.none

\* C19: initialized_ changes only from FALSE to TRUE, on a focus event, and
\* never changes again; the client is constructed and the scroll listener
\* attached with that change only, so at most once.
C19_InitializedOnce ==
    /\ [][ initialized_
           => /\ initialized_'
              /\ es_client_' = es_client_ /\ listeners' = listeners ]_vars
    /\ [][ (~initialized_ /\ initialized_') => ev'.type = "focus" ]_vars
    /\ [](/\ es_client_ = (IF initialized_ THEN 1 ELSE 0)
          /\ listeners = es_client_)

\* a focus event of an initialized instance that has dispatched a query
C19_Witness ==
    /\ ev.type = "focus" /\ ev.branch = "query"
    /\ initialized_ /\ es_client_ = 1 /\ listeners = 1

\* C20: a stage-2 batch is dispatched only by a successful stage-1
\* completion, one batch for that search, holding one section query per
\* stage-1 hit in hit order; a search has at most one batch in flight, and
\* a failed stage-1 query dispatches none.
C20_BatchFromStageOne ==
    /\ [][ ~(msearches' \subseteq msearches)
           => /\ ev'.type = "search" /\ ev'.branch = "ok"
              /\ \E m \in msearches' \ msearches :
                    /\ msearches' = msearches \cup {m}
                    /\ m.q = ev'.q
                    /\ Len(m.body) = Len(HitsFor(ev'.text))
                    /\ \A k \in 1..Len(m.body) :
                          /\ m.body[k].parent_id = HitsFor(ev'.text)[k]._id
                          /\ m.body[k].parent_document = "section" ]_vars
    /\ [](\A m1, m2 \in msearches : m1.q = m2.q => m1 = m2)

\* the stage-1 response with three hits has dispatched a batch of three
\* section queries
C20_Witness ==
    /\ ev.type = "search" /\ ev.branch = "ok"
    /\ \E m \in msearches : m.q = ev.q /\ Len(m.body) = 3

\* the step handles an event of an initialized instance whose text is not
\* empty and differs from value_
AcceptStep == InputStep /\ ev'.text \notin {"", value_}

\* C21: every event of an initialized instance whose non-empty text differs
\* from value_ dispatches exactly one stage-1 query, for that text, whatever
\* is in flight and whatever was queried before; nothing else dispatches a
\* query, and a query in flight is removed by its own completion only.
C21_OneDispatchPerAccept ==
    /\ [][ AcceptStep
           => /\ dispatched' = dispatched + 1
              /\ \E r \in searches' \ searches :
                    /\ searches' = searches \cup {r}
                    /\ r.q = dispatched'
                    /\ r.post_body = buildElasticSearchQuery(ev'.text) ]_vars
    /\ [][ (dispatched' # dispatched \/ ~(searches' \subseteq searches))
           => AcceptStep ]_vars
    /\ [][ searches' # searches /\ ~AcceptStep
           => /\ ev'.type = "search"
              /\ \E r \in searches : r.q = ev'.q /\ searches' = searches \ {r}
         ]_vars

\* the text "a" was accepted a second time while its first query was still
\* in flight: two queries for "a" are in flight
C21_Witness ==
    /\ ev.type \in Input /\ ev.branch = "query" /\ ev.text = "a"
    /\ dispatched = 2 /\ Cardinality(searches) = 2
    /\ \A r \in searches : r.post_body.query = "a"

\* C22: an event of an initialized instance whose text equals value_ leaves
\* the list, the metadata text, the pending queue and value_ unchanged.
C22_SameTextNoOp ==
    [][ (InputStep /\ ev'.text = value_)
        => UNCHANGED << list_, articles, meta_, stack_, stack_assigned,
                        value_ >> ]_vars

\* an event with the unchanged text "a" arrived while results were shown
\* and units were pending
C22_Witness ==
    /\ ev.type \in Input /\ ev.branch = "abort" /\ initialized_
    /\ ev.text = "a" /\ value_ = "a"
    /\ list_ # <<>> /\ stack_ # <<>>

\* C23: a scroll event that arrives farther than the slack from the bottom,
\* or while the queue is empty, runs no unit and leaves the queue and the
\* list unchanged.
C23_ScrollFarOrEmpty ==
    [][ (/\ ev'.type = "scroll"
         /\ \/ ~NearBottom(ev'.top, list_, articles)
            \/ stack_ = <<>>)
        => /\ ev'.n = 0
           /\ UNCHANGED << stack_, list_, articles >> ]_vars

\* a scroll event arrived farther than the slack from the bottom while
\* units were pending
C23_Witness ==
    /\ ev.type = "scroll" /\ ev.branch = "ok" /\ ev.n = 0
    /\ stack_ # <<>>
    /\ ~NearBottom(ev.top, list_, articles)

\* the content overflows the visible height by more than the slack
Overflows(list, arts) == OffsetHeight < scrollHeight(list, arts) - Slack

\* C24: the eager drain of a stage-2 completion takes the units it runs
\* from the head of the queue, the pushed units included; it runs none when
\* the content already overflows; when it ends the queue is empty or the
\* content overflows, and the overflow is at most what its last unit added.
C24_EagerDrain ==
    [][ (ev'.type = "msearch" /\ ev'.branch = "ok")
        => \E m \in msearches :
              LET pushed == pushAll(stack_, m.q,
                               EngineMsearch(Indexes[engine], m.body), 1)
              IN  /\ m.q = ev'.q
                  /\ ev'.n <= Len(pushed)
                  /\ stack_' = Drop(pushed, ev'.n)
                  /\ Overflows(list_, articles) => ev'.n = 0
                  /\ stack_' = <<>> \/ Overflows(list_', articles')
                  /\ ev'.n > 0
                        => scrollHeight(list_', articles')
                              <= OffsetHeight + Slack + Max(DocHeight, SecHeight)
      ]_vars

\* a stage-2 completion has painted units until the content overflowed and
\* left the others pending
C24_Witness ==
    /\ ev.type = "msearch" /\ ev.branch = "ok" /\ ev.n > 0
    /\ stack_ # <<>> /\ Overflows(list_, articles)

\* C25: the callback of a dispatched stage-1 query is invoked exactly once
\* when the query completes, and not before: never a second time, also when
\* its success branch throws.
C25_CallbackOnce ==
    \A q \in 1..MaxSearches :
       calls[q] = IF q <= dispatched /\ ~(\E r \in searches : r.q = q)
                  THEN 1 ELSE 0

\* C26: a scroll event of an initialized instance whose stack_ has never
\* been assigned is a no-op: it runs no unit and throws no error.
C26_ScrollBeforeQueue ==
    (ev.type = "scroll" /\ ~stack_assigned)
        => (ev.branch = "ok" /\ ev.n = 0)

\* C27: every section query of a stage-2 batch carries the text of the
\* stage-1 query whose hits it is scoped to.
C27_SectionQueryText ==
    \A m \in msearches :
       \A k \in 1..Len(m.body) : m.body[k].query = m.text

\* C28: no unit is run more than once: an article was appended by at most
\* one run of its document unit and is in the list at most once, no anchor
\* is under its article twice, a pending unit has not run, and no unit is
\* pending twice.
C28_UnitsRunOnce ==
    /\ \A a, b \in 1..Len(list_) : list_[a] = list_[b] => a = b
    /\ \A key \in DOMAIN articles :
          /\ articles[key].runs <= 1
          /\ \A a, b \in 1..Len(articles[key].kids) :
                articles[key].kids[a].j = articles[key].kids[b].j => a = b
    /\ \A a \in 1..Len(stack_) :
          LET u == stack_[a]
          IN  /\ u.kind = "doc" => articles[u.art].runs = 0
              /\ u.kind = "sec"
                    => \A k \in 1..Len(articles[u.art].kids) :
                          articles[u.art].kids[k].j # u.j
              /\ \A b \in 1..Len(stack_) :
                    (/\ stack_[b].kind = u.kind /\ stack_[b].art = u.art
                     /\ stack_[b].j = u.j) => a = b

\* an eager drain and then two scroll events have run units of a search of
\* three documents, and units are still pending
C28_Witness ==
    /\ ev.type = "scroll" /\ ev.n > 0
    /\ Len(list_) = 3 /\ stack_ # <<>>
    /\ \A a \in 1..Len(list_) : articles[list_[a]].runs = 1

\* no query is in flight
Quiet == searches = {} /\ msearches = {}

\* C29: when units are pending and no query is in flight, and scroll
\* events within the slack of the bottom keep occurring, the queue is
\* eventually emptied by a scroll event, unless a text is accepted and its
\* query dispatched before.
C29_PendingEventuallyRun ==
    (Quiet /\ stack_ # <<>>)
        ~> ((stack_ = <<>> /\ ev.type = "scroll" /\ ev.n > 0) \/ ~Quiet)

\* with no query in flight, a scroll event has run the last pending units
\* of a search of three documents
C29_Witness ==
    /\ Quiet /\ ev.type = "scroll" /\ ev.n > 0 /\ stack_ = <<>>
    /\ Len(list_) = 3
    /\ \A a \in 1..Len(list_) :
          Len(articles[list_[a]].kids) = Len(articles[list_[a]].slice)

\* C30: while the last accepted text is the empty one, the list is empty
\* and the metadata text is the placeholder.
C30_ClearedStaysCleared ==
    value_ = "" => (list_ = <<>> /\ meta_ = message_.placeholder)

-----------------------------------------------------------------------------
(* Properties of the functions called on their own *)

Ellipsis == <<".", ".", ".">>

\* a call of truncate has returned
TruncateDone == args.op = "truncate" /\ returned.done

\* the zero-based indexes in lo..n at which the string has a space
SpacesIn(string, lo, n) ==
    { i \in lo..n : i < Len(string) /\ string[i + 1] = " " }

Last(S) == CHOOSE i \in S : \A h \in S : h <= i

\* C11: truncate(s, n) returns s unchanged when length(s) <= n; when
\* length(s) > n and s has a space at an index in 1..n it returns the
\* prefix of s ending just before the last such space, followed by "...".
C11_TruncateAtLastSpace ==
    TruncateDone =>
        LET spaces == SpacesIn(args.string, 1, args.n)
        IN  /\ Len(args.string) <= args.n => returned.value = args.string
            /\ (Len(args.string) > args.n /\ spaces # {})
                  => returned.value =
                        SubSeq(args.string, 1, Last(spaces)) \o Ellipsis

\* truncate("a a a", 4) has returned "a a..."
C11_Witness ==
    /\ TruncateDone
    /\ args.string = <<"a", " ", "a", " ", "a">> /\ args.n = 4
    /\ returned.value = <<"a", " ", "a", ".", ".", ".">>

\* C12: for a string longer than n with no space at an index in 0..n,
\* truncate(s, n) returns the first n characters of s followed by "...".
C12_CutAtBudget ==
    (/\ TruncateDone
     /\ Len(args.string) > args.n
     /\ SpacesIn(args.string, 0, args.n) = {})
        => returned.value = SubSeq(args.string, 1, args.n) \o Ellipsis

\* C13: the body of a section anchor is the highlighted text fragment of
\* its hit, unmodified, when the hit has one, and otherwise the plain text
\* truncated to the teaser budget.
C13_SectionBody ==
    (args.op = "section" /\ returned.done)
        => returned.value.teaser =
              IF args.hit.highlight.text # <<>>
              THEN args.hit.highlight.text[1]
              ELSE truncate(args.hit._source.text, TeaserBudget)

\* the number of units pushed for the hits before hit i
UnitsBefore(section_result, i) ==
    LET RECURSIVE Sum(_)
        Sum(h) == IF h = 0 THEN 0 ELSE 1 + Len(section_result[h]) + Sum(h - 1)
    IN  Sum(i - 1)

\* C18: aggregating a stage-1 response of n hits with its aligned stage-2
\* batch pushes n document units, one per hit, also for a hit with an empty
\* slice, each directly followed by one section unit per section hit of its
\* slice, in order.
C18_UnitsPerHit ==
    (args.op = "aggregate" /\ returned.done)
        => LET units == returned.value
               section_result == args.section_result
               n == Len(args.result)
           IN  /\ Len(section_result) = n
               /\ Len(units) = UnitsBefore(section_result, n + 1)
               /\ Cardinality({ k \in 1..Len(units) : units[k].kind = "doc" }) = n
               /\ \A i \in 1..n :
                     LET at == UnitsBefore(section_result, i) + 1
                     IN  /\ units[at].kind = "doc" /\ units[at].art[2] = i
                         /\ \A j \in 1..Len(section_result[i]) :
                               /\ units[at + j].kind = "sec"
                               /\ units[at + j].art[2] = i
                               /\ units[at + j].j = j
                               /\ units[at + j].node.title =
                                     section_result[i][j]._source.title

\* the response of the small site to "a" was aggregated: the first hit has
\* three sections, the second none
C18_Witness ==
    /\ args.op = "aggregate" /\ returned.done
    /\ Len(args.result) = 2
    /\ Len(args.section_result[1]) = 3 /\ args.section_result[2] = <<>>
    /\ Len(returned.value) = 5

-----------------------------------------------------------------------------
(* Properties of the single-stage variant *)

\* one document unit per hit of search q, in hit order
DocumentUnits(q, hits) ==
    [ k \in 1..Len(hits) |->
        [ kind |-> "doc", art |-> <<q, k>>, j |-> 0, node |-> NoNode ] ]

\* C31: in the single-stage variant a successful completion replaces the
\* queue by one document unit per hit, in hit order and with no section
\* unit, and runs the first of them by the eager drain in the same step; no
\* other step adds a unit; so the queue always holds document units of one
\* search only, the one whose response was handled last.
C31_SingleStageQueue ==
    /\ [][ (ev'.type = "search" /\ ev'.branch = "ok")
           => LET units == DocumentUnits(ev'.q, HitsFor(ev'.text))
              IN  /\ ev'.n <= Len(units)
                  /\ stack_' = Drop(units, ev'.n)
                  /\ \A k \in 1..ev'.n :
                        \E a \in 1..Len(list_') : list_'[a] = units[k].art
         ]_vars
    /\ [][ ~(ev'.type = "search" /\ ev'.branch = "ok")
           => \E k \in 0..Len(stack_) : stack_' = Drop(stack_, k) ]_vars
    /\ [](\A a, b \in 1..Len(stack_) :
             /\ stack_[a].kind = "doc"
             /\ stack_[a].art[1] = stack_[b].art[1])

\* the response of the second search was handled while the documents of
\* the first filled the list: its units are all pending
C31_Witness ==
    /\ ev.type = "search" /\ ev.branch = "ok" /\ ev.q = 2
    /\ stack_ # <<>>
    /\ list_ # <<>> /\ \A a \in 1..Len(list_) : list_[a][1] = 1

====
